---- MODULE Spec2Model ----
(***************************************************************************)
(* A model of auto_update.py, the updater of a Bedrock dedicated server:   *)
(* the reconciliation of server.properties, the merge of a release into an *)
(* installation, the two retention pruners and the main run.               *)
(*                                                                         *)
(* Text is modelled character by character: a line is a sequence of        *)
(* one-character strings that ends with "\n" (the last line of a file may  *)
(* lack it), and a document is the sequence of lines readlines() returns.  *)
(***************************************************************************)
EXTENDS Integers, Sequences, FiniteSets, TLC

VARIABLES
    \* update_server_properties on its own
    source_file,      \* the source document (the installation's server.properties)
    target_file,      \* the target document, rewritten in place
    target_before,    \* the target document as it was before the call
    rc_pc,            \* "ready", "written" (returned) or "failed" (raised)
    \* the two pruners on their own
    download_dir,     \* the download cache: its regular files and its directories
    backup_dir,       \* the backup directory: its regular files and its directories
    max_num,          \* the retention count the pruner is called with
    dir_before,       \* the pruned directory as it was before each call so far
    pr_pc,            \* "ready" or "failed" (the pruner raised)
    \* update_server
    local_server_dir,   \* the installation, a directory tree
    latest_server_dir,  \* the unpacked release, a directory tree
    other_dir,          \* the directory --target_dir names when it is another one
    target_arg,         \* --target_dir: None, the installation's path "srv", the
                        \* same directory written "srv/", or another one, "new"
    up_pc,              \* where update_server is, "done" or "failed" (it raised)
    todo,               \* the names step 2 has yet to copy
    local_before,       \* the installation as it was when each merge so far began
    latest_before,      \* the release as it was unpacked
    \* the main run; it prunes download_dir and backup_dir
    run_pc,             \* the step the run is at, "done" or "crashed" (it raised)
    behavior_packs,     \* server_dir/behavior_packs: whether it exists, and its names
    keep_cache_num,     \* --keep_cache_num
    keep_backup_num,    \* --keep_backup_num
    backup_path,        \* args.backup_dir: None or a path
    local_version,      \* what get_local_server_version returned
    page,               \* the answer to the request of the download page
    response,           \* the answer to the request of the archive
    corrupt,            \* the files of download_dir that are no archive
    partial,            \* the directories of download_dir an unpacking left unfinished
    extracted,          \* what download_and_extract_latest_server returned
    installation,       \* "original", "merging", "merged"
    steps,              \* the steps the run has begun, in order
    cache_before,       \* download_dir, corrupt and partial when the run began
    backup_before,      \* backup_dir when the run began
    \* compare_version on its own
    cmp_v1,             \* the first version
    cmp_v2,             \* the second version
    compared,           \* what compare_version returned
    cmp_pc              \* "ready" or "returned"

rcVars == <<source_file, target_file, target_before, rc_pc>>
prVars == <<download_dir, backup_dir, max_num, dir_before, pr_pc>>
upVars == <<local_server_dir, latest_server_dir, other_dir, target_arg, up_pc, todo,
            local_before, latest_before>>

runVars == <<run_pc, behavior_packs, keep_cache_num, keep_backup_num, backup_path,
             local_version, page, response, corrupt, partial, extracted, installation,
             steps, cache_before, backup_before>>

cmpVars == <<cmp_v1, cmp_v2, compared, cmp_pc>>

vars == <<rcVars, prVars, upVars, runVars, cmpVars>>

-----------------------------------------------------------------------------
(* Strings *)

Whitespace == {" ", "\n"}

RECURSIVE lstrip(_)
lstrip(s) == IF s # <<>> /\ Head(s) \in Whitespace THEN lstrip(Tail(s)) ELSE s

RECURSIVE rstrip(_)
rstrip(s) ==
    IF s # <<>> /\ s[Len(s)] \in Whitespace THEN rstrip(SubSeq(s, 1, Len(s) - 1)) ELSE s

\* str.strip()
strip(s) == rstrip(lstrip(s))

\* str.split(sep): the parts between the occurrences of sep
RECURSIVE split(_, _)
split(s, sep) ==
    IF \E i \in 1..Len(s) : s[i] = sep
    THEN LET i == CHOOSE i \in 1..Len(s) : s[i] = sep /\ \A j \in 1..(i - 1) : s[j] # sep
         IN  <<SubSeq(s, 1, i - 1)>> \o split(SubSeq(s, i + 1, Len(s)), sep)
    ELSE <<s>>

\* line.startswith("#")
startswith_hash(line) == line # <<>> /\ line[1] = "#"

\* not line.startswith("#") and not line == "\n"
is_key_line(line) == ~startswith_hash(line) /\ line # <<"\n">>

-----------------------------------------------------------------------------
(* update_server_properties *)

\* A file: there or not, and its lines
NoFile == [there |-> FALSE, doc |-> <<>>]
File(doc) == [there |-> TRUE, doc |-> doc]

key_lines(doc) == {i \in 1..Len(doc) : is_key_line(doc[i])}

\* as unpack_fails, had the line been split at its first "=" only
unpack_fails_first_only(doc) == \E i \in key_lines(doc) : Len(split(doc[i], "=")) < 2

\* key, value = line.split("=") raises ValueError unless there are two parts
unpack_fails(doc) == \E i \in key_lines(doc) : Len(split(doc[i], "=")) # 2

line_key(line) == strip(split(line, "=")[1])
line_value(line) == strip(split(line, "=")[2])

\* the dict the reading loop builds: a later line of a key overwrites an earlier one
read_dict(doc) ==
    [k \in {line_key(doc[i]) : i \in key_lines(doc)} |->
        LET last == CHOOSE i \in key_lines(doc) :
                        /\ line_key(doc[i]) = k
                        /\ \A j \in key_lines(doc) : line_key(doc[j]) = k => j <= i
        IN  line_value(doc[last])]

\* as compare_keys, had a key of both documents kept the target's value
compare_keys_target_wins(source_dict, target_dict) ==
    [k \in DOMAIN target_dict |-> target_dict[k]]

\* the loop over all_keys
compare_keys(source_dict, target_dict) ==
    LET all_keys == DOMAIN source_dict \cup DOMAIN target_dict
        kept == {k \in all_keys : ~(k \notin DOMAIN target_dict)}
    IN  [k \in kept |->
            IF k \in DOMAIN source_dict /\ k \in DOMAIN target_dict
            THEN source_dict[k]
            ELSE target_dict[k]]

\* the writing loop
write_lines(target_lines, result_dict) ==
    [i \in 1..Len(target_lines) |->
        IF is_key_line(target_lines[i])
        THEN LET key == strip(split(target_lines[i], "=")[1])
             IN  key \o <<"=">> \o result_dict[key] \o <<"\n">>
        ELSE target_lines[i]]

\* The whole function: [ok, target], target being the target file afterwards.
\* Both files are read and unpacked before the target is opened for writing.
update_server_properties(source, target) ==
    IF \/ ~source.there
       \/ unpack_fails(source.doc)
       \/ ~target.there
       \/ unpack_fails(target.doc)
    THEN [ok |-> FALSE, target |-> target]
    ELSE [ok |-> TRUE,
          target |-> File(write_lines(target.doc,
                                      compare_keys(read_dict(source.doc),
                                                   read_dict(target.doc))))]

-----------------------------------------------------------------------------
(* Versions *)

Digits == {"0", "1", "2", "3", "4", "5", "6", "7", "8", "9"}

DigitVal ==
    ("0" :> 0) @@ ("1" :> 1) @@ ("2" :> 2) @@ ("3" :> 3) @@ ("4" :> 4) @@
    ("5" :> 5) @@ ("6" :> 6) @@ ("7" :> 7) @@ ("8" :> 8) @@ ("9" :> 9)

\* int() of a string of digits
RECURSIVE int(_)
int(ds) == IF ds = <<>> THEN 0 ELSE int(SubSeq(ds, 1, Len(ds) - 1)) * 10 + DigitVal[ds[Len(ds)]]

\* re.findall(r"\d+", string), each match through int(): s is what is left to
\* scan, cur the digits of the match being read, acc the numbers found
RECURSIVE findall_digits(_, _, _)
findall_digits(s, cur, acc) ==
    LET closed == IF cur = <<>> THEN acc ELSE Append(acc, int(cur))
    IN  IF s = <<>> THEN closed
        ELSE IF Head(s) \in Digits
             THEN findall_digits(Tail(s), Append(cur, Head(s)), acc)
             ELSE findall_digits(Tail(s), <<>>, closed)

\* extract_numbers(string, match_float=False, match_sign=False), the only
\* way the program calls it
extract_numbers(string) == findall_digits(string, <<>>, <<>>)

Min(a, b) == IF a < b THEN a ELSE b

\* the first index below compare_length where the versions differ, 0 if none
first_difference(v1, v2) ==
    LET compare_length == Min(Len(v1), Len(v2))
        differ == {i \in 1..compare_length : v1[i] # v2[i]}
    IN  IF differ = {} THEN 0 ELSE CHOOSE i \in differ : \A j \in differ : i <= j

\* as compare_version, had the shorter of two versions of one shared prefix
\* been the lower
compare_version_by_length(v1, v2) ==
    LET i == first_difference(v1, v2)
    IN  IF i = 0
        THEN IF Len(v1) < Len(v2) THEN -1 ELSE IF Len(v1) > Len(v2) THEN 1 ELSE 0
        ELSE IF v1[i] < v2[i] THEN -1 ELSE 1

compare_version(v1, v2) ==
    LET i == first_difference(v1, v2)
    IN  IF i = 0 THEN 0
        ELSE IF v1[i] < v2[i] THEN -1 ELSE 1

-----------------------------------------------------------------------------
(* sorted(): CPython's list sort on fewer than 64 elements, which finds the *)
(* run the list starts with, reverses it when it descends, and inserts the *)
(* rest one by one by binary search.                                       *)

\* sorted(..., key=cmp_to_key(compare_version)): x < y iff compare_version(x, y) < 0
lt(x, y) == compare_version(x, y) < 0

\* count_run: the length of the run the list starts with, and whether it descends
count_run(a) ==
    IF Len(a) < 2 THEN [n |-> Len(a), descending |-> FALSE]
    ELSE LET desc == lt(a[2], a[1])
             n == CHOOSE m \in 2..Len(a) :
                     /\ \A i \in 3..m : lt(a[i], a[i - 1]) = desc
                     /\ m = Len(a) \/ lt(a[m + 1], a[m]) # desc
         IN  [n |-> n, descending |-> desc]

reverse(a) == [i \in 1..Len(a) |-> a[Len(a) + 1 - i]]

\* the binary search of binarysort, on offsets from 0: where pivot goes in a[l..r)
RECURSIVE insertion_point(_, _, _, _)
insertion_point(a, pivot, l, r) ==
    LET p == l + ((r - l) \div 2)
        l2 == IF lt(pivot, a[p + 1]) THEN l ELSE p + 1
        r2 == IF lt(pivot, a[p + 1]) THEN p ELSE r
    IN  IF l2 < r2 THEN insertion_point(a, pivot, l2, r2) ELSE l2

\* binarysort: a[1..start-1] is sorted; insert a[start], a[start+1], ...
RECURSIVE binarysort(_, _)
binarysort(a, start) ==
    IF start > Len(a) THEN a
    ELSE LET pivot == a[start]
             l == insertion_point(a, pivot, 0, start - 1)
             moved == SubSeq(a, 1, l) \o <<pivot>> \o SubSeq(a, l + 1, start - 1)
                          \o SubSeq(a, start + 1, Len(a))
         IN  binarysort(moved, start + 1)

list_sort(a) ==
    IF Len(a) < 2 THEN a
    ELSE LET run == count_run(a)
             head == SubSeq(a, 1, run.n)
             rest == SubSeq(a, run.n + 1, Len(a))
             b == (IF run.descending THEN reverse(head) ELSE head) \o rest
         IN  binarysort(b, run.n + 1)

-----------------------------------------------------------------------------
(* delete_download_cache_files *)

\* all_versions[-max_num:]
last_n(a, n) == SubSeq(a, Len(a) - Min(n, Len(a)) + 1, Len(a))

\* the inner loop: is the file of this_version deleted?
cache_delete(keep_versions, this_version, num) ==
    ~(num > 0 /\ \E i \in 1..Len(keep_versions) :
                    compare_version(keep_versions[i], this_version) = 0)

\* as delete_download_cache_files, had "if max_num >= 0" been left out
delete_download_cache_files_unguarded(dir, listing, num) ==
    LET all_versions == list_sort([i \in 1..Len(listing) |-> extract_numbers(listing[i])])
    IN  IF Len(all_versions) > num
        THEN [dir EXCEPT !.files =
                 {f \in dir.files :
                     ~cache_delete(last_n(all_versions, num), extract_numbers(f), num)}]
        ELSE dir

\* The whole function: the directory afterwards. listing is the order in which
\* os.listdir names the regular files for all_versions.
delete_download_cache_files(dir, listing, num) ==
    IF num >= 0
    THEN LET all_versions ==
                 list_sort([i \in 1..Len(listing) |-> extract_numbers(listing[i])])
         IN  IF Len(all_versions) > num
             THEN [dir EXCEPT !.files =
                      {f \in dir.files :
                          ~cache_delete(last_n(all_versions, num), extract_numbers(f), num)}]
             ELSE dir
    ELSE dir

-----------------------------------------------------------------------------
(* delete_local_server_backup_files *)

\* x.split('-')[0]
timestamp_text(filename) == split(filename, "-")[1]

\* int() raises ValueError on anything but an integer
int_fails(text) == text = <<>> \/ \E i \in 1..Len(text) : text[i] \notin Digits

\* lambda x: int(x.split('-')[0])
backup_key(filename) == int(timestamp_text(filename))

\* as sorted_reverse, had reverse=True been left out: by increasing key
sorted_forward(listing) ==
    LET before(i, j) ==
            \/ int(split(listing[i], "-")[1]) < int(split(listing[j], "-")[1])
            \/ int(split(listing[i], "-")[1]) = int(split(listing[j], "-")[1]) /\ i < j
        place(i) == 1 + Cardinality({j \in 1..Len(listing) : before(j, i)})
    IN  [p \in 1..Len(listing) |-> listing[CHOOSE i \in 1..Len(listing) : place(i) = p]]

\* sorted(..., key=..., reverse=True): by decreasing key, files of one key in
\* the order of the listing (the sort is stable, reversed or not)
sorted_reverse(listing) ==
    LET before(i, j) ==
            \/ backup_key(listing[i]) > backup_key(listing[j])
            \/ backup_key(listing[i]) = backup_key(listing[j]) /\ i < j
        place(i) == 1 + Cardinality({j \in 1..Len(listing) : before(j, i)})
    IN  [p \in 1..Len(listing) |-> listing[CHOOSE i \in 1..Len(listing) : place(i) = p]]

\* The whole function: [ok, dir], dir being the directory afterwards.
delete_local_server_backup_files(dir, listing, num) ==
    IF num >= 0
    THEN IF \E i \in 1..Len(listing) : int_fails(timestamp_text(listing[i]))
         THEN [ok |-> FALSE, dir |-> dir]
         ELSE LET all_files == sorted_reverse(listing)
              IN  IF Len(all_files) > num
                  THEN [ok |-> TRUE,
                        dir |-> [dir EXCEPT !.files =
                                    dir.files \ {all_files[i] : i \in (num + 1)..Len(all_files)}]]
                  ELSE [ok |-> TRUE, dir |-> dir]
    ELSE [ok |-> TRUE, dir |-> dir]

-----------------------------------------------------------------------------
(* Directory trees, shutil.copy2 and shutil.copytree *)

\* An entry of a directory: nothing, a regular file or a directory of files.
\* data is a set of <<name, content>>: a file's one content under the name "",
\* a directory's files under their names.
Absent == [kind |-> "absent", data |-> {}]
FileOf(content) == [kind |-> "file", data |-> {<<"", content>>}]
DirOf(files) == [kind |-> "dir", data |-> files]

SPECIAL_PATHS == {"worlds", "allowlist.json", "permissions.json", "server.properties"}

\* the entries a tree is modelled with, besides server.properties and
\* server.properties.temp, which are kept as documents
EntryNames == {"worlds", "allowlist.json", "permissions.json", "bedrock_server"}

\* a directory that does not exist, and one that exists and is empty
NoTree ==
    [exists |-> FALSE, e |-> [n \in EntryNames |-> Absent],
     properties |-> NoFile, temp |-> NoFile]
EmptyTree == [NoTree EXCEPT !.exists = TRUE]

content_of(file) == (CHOOSE f \in file.data : TRUE)[2]

\* shutil.copy2(src, dst), src a regular file: [ok, to], to being dst afterwards.
\* same: src and dst are one file (SameFileError). A dst that is a directory
\* gets the file inside it, under the name of src.
copy2(src, dst, name, same) ==
    IF same THEN [ok |-> FALSE, to |-> dst]
    ELSE IF dst.kind = "dir"
         THEN [ok |-> TRUE,
               to |-> DirOf({f \in dst.data : f[1] # name} \cup {<<name, content_of(src)>>})]
         ELSE [ok |-> TRUE, to |-> src]

\* shutil.copytree(src, dst, dirs_exist_ok=True): [ok, to]. A src that is not
\* there cannot be scanned, a dst that is a regular file cannot be made a
\* directory; files of dst that src does not have stay; copying a directory
\* onto itself fails on its first file.
copytree(src, dst, same) ==
    IF src.kind # "dir" THEN [ok |-> FALSE, to |-> dst]
    ELSE IF dst.kind = "file" THEN [ok |-> FALSE, to |-> dst]
    ELSE IF same THEN [ok |-> src.data = {}, to |-> dst]
    ELSE [ok |-> TRUE,
          to |-> DirOf({f \in dst.data : \A g \in src.data : g[1] # f[1]} \cup src.data)]

\* if os.path.isfile(server_dir): shutil.copy2(...) else: shutil.copytree(...)
copy_entry(src, dst, name, same) ==
    IF src.kind = "file" THEN copy2(src, dst, name, same) ELSE copytree(src, dst, same)

-----------------------------------------------------------------------------
(* update_server *)

ServerDir == "srv"
None == "None"

\* the directory a path leads to: "srv/" is "srv"
directory_of(path) == IF path = "srv/" THEN "srv" ELSE path

\* if target_server_dir is None: target_server_dir = local_server_dir
target_path(arg) == IF arg = None THEN ServerDir ELSE arg

\* target_server_dir != local_server_dir, a comparison of the two strings
paths_differ(target, local) == target # local

\* 2. if target_server_dir != local_server_dir: copy the special files
copies_special(target, local) == paths_differ(target, local)

\* as removes_old_server, had the old server been removed whatever the target
removes_old_server_always(target, local) == TRUE

\* 4. if target_server_dir != local_server_dir: remove the old server
removes_old_server(target, local) == paths_differ(target, local)

\* os.listdir of a tree
listdir(tree) ==
    {n \in EntryNames : tree.e[n].kind # "absent"}
        \cup (IF tree.properties.there THEN {"server.properties"} ELSE {})

\* the names a listing can hold, sorted
SortedNames ==
    <<"allowlist.json", "bedrock_server", "permissions.json", "server.properties", "worlds">>

\* 1. the loop that copies the release's entries: [ok, tree], tree being the
\* target afterwards; it stops at the first copy that raises
RECURSIVE copy_release(_, _, _)
copy_release(names, latest, target) ==
    IF names = <<>> THEN [ok |-> TRUE, tree |-> target]
    ELSE LET filename == Head(names)
         IN  IF filename \in listdir(latest) /\ filename \notin SPECIAL_PATHS
             THEN IF filename = "server.properties"
                  THEN copy_release(Tail(names), latest,
                                    [target EXCEPT !.properties = latest.properties])
                  ELSE LET r == copy_entry(latest.e[filename], target.e[filename],
                                           filename, FALSE)
                       IN  IF r.ok
                           THEN copy_release(Tail(names), latest,
                                             [target EXCEPT !.e[filename] = r.to])
                           ELSE [ok |-> FALSE, tree |-> target]
             ELSE copy_release(Tail(names), latest, target)
-----------------------------------------------------------------------------
(* get_local_server_version *)

\* str.startswith(prefix)
startswith(s, prefix) == Len(s) >= Len(prefix) /\ SubSeq(s, 1, Len(prefix)) = prefix

\* str.replace(old, new): every occurrence of old, from the left
RECURSIVE replace(_, _, _)
replace(s, old, new) ==
    IF Len(s) < Len(old) THEN s
    ELSE IF startswith(s, old)
         THEN new \o replace(SubSeq(s, Len(old) + 1, Len(s)), old, new)
         ELSE <<Head(s)>> \o replace(Tail(s), old, new)

Vanilla == <<"v", "a", "n", "i", "l", "l", "a", "_">>

\* as scan_packs, had the comparison been written the other way round
RECURSIVE scan_packs_lowest(_, _)
scan_packs_lowest(listing, latest_version) ==
    IF listing = <<>> THEN latest_version
    ELSE LET dirname == Head(listing)
             this_version == extract_numbers(replace(dirname, Vanilla, <<>>))
         IN  IF startswith(dirname, Vanilla) /\ compare_version(latest_version, this_version) > 0
             THEN scan_packs_lowest(Tail(listing), this_version)
             ELSE scan_packs_lowest(Tail(listing), latest_version)

\* the loop over os.listdir(behavior_path), latest_version being the latest so far
RECURSIVE scan_packs(_, _)
scan_packs(listing, latest_version) ==
    IF listing = <<>> THEN latest_version
    ELSE LET dirname == Head(listing)
             this_version == extract_numbers(replace(dirname, Vanilla, <<>>))
         IN  IF startswith(dirname, Vanilla) /\ compare_version(latest_version, this_version) < 0
             THEN scan_packs(Tail(listing), this_version)
             ELSE scan_packs(Tail(listing), latest_version)

\* The whole function, listing being the order in which os.listdir names the
\* entries of behavior_packs.
get_local_server_version(listing) == scan_packs(listing, <<0>>)

-----------------------------------------------------------------------------
(* download_and_extract_latest_server. A cache is the download directory:  *)
(* [dir, corrupt, partial], dir being its regular files and directories,   *)
(* corrupt the files that are no archive, partial the directories an       *)
(* unpacking left unfinished. An answer to a request is [raised,           *)
(* status_code, text]; the text of the download page is the URL re.search  *)
(* finds in it, <<>> when it finds none.                                   *)

Zip == <<".", "z", "i", "p">>
Archive == <<"P", "K">>
NoAnswer == [raised |-> FALSE, status_code |-> 0, text |-> <<>>]
NoCache == [dir |-> [files |-> {}, dirs |-> {}], corrupt |-> {}, partial |-> {}]

\* return None, a path being a sequence of characters
NoPath == <<>>

\* shutil.rmtree(path): [ok, cache]; it removes a directory, and raises on a
\* regular file and on nothing
rmtree(cache, name) ==
    IF name \in cache.dir.dirs
    THEN [ok |-> TRUE,
          cache |-> [cache EXCEPT !.dir.dirs = @ \ {name}, !.partial = @ \ {name}]]
    ELSE [ok |-> FALSE, cache |-> cache]

\* with zipfile.ZipFile(download_file, 'r') as zip_ref: zip_ref.extractall(extract_dir)
\* [ok, cache]; a file that is no archive raises, at once or, leaves being
\* true, after some of it has been unpacked
extractall(cache, download_file, extract_dir, leaves) ==
    IF download_file \in cache.corrupt
    THEN [ok |-> FALSE,
          cache |-> IF leaves
                    THEN [cache EXCEPT !.dir.dirs = @ \cup {extract_dir},
                                       !.partial = @ \cup {extract_dir}]
                    ELSE cache]
    ELSE [ok |-> TRUE,
          cache |-> [cache EXCEPT !.dir.dirs = @ \cup {extract_dir},
                                  !.partial = @ \ {extract_dir}]]

\* with open(download_file, 'wb') as f: f.write(server_file.content)
\* [ok, cache]; a directory cannot be opened for writing
write_archive(cache, download_file, content) ==
    IF download_file \in cache.dir.dirs
    THEN [ok |-> FALSE, cache |-> cache]
    ELSE [ok |-> TRUE,
          cache |-> [cache EXCEPT !.dir.files = @ \cup {download_file},
                                  !.corrupt = IF content = Archive
                                              THEN @ \ {download_file}
                                              ELSE @ \cup {download_file}]]

\* if perform_download: ..., server_file being the answer to the request
perform_download(cache, download_file, extract_dir, server_file, leaves) ==
    IF server_file.raised
    THEN [extract_dir |-> NoPath, cache |-> cache, asked |-> TRUE]
    ELSE IF server_file.status_code # 200
    THEN [extract_dir |-> NoPath, cache |-> cache, asked |-> TRUE]
    ELSE LET w == write_archive(cache, download_file, server_file.text)
             x == extractall(w.cache, download_file, extract_dir, leaves)
         IN  IF ~w.ok THEN [extract_dir |-> NoPath, cache |-> w.cache, asked |-> TRUE]
             ELSE [extract_dir |-> IF x.ok THEN extract_dir ELSE NoPath,
                   cache |-> x.cache, asked |-> TRUE]

\* if os.path.isfile(download_file): ..., then the download unless the cached
\* file was unpacked
use_cache(cache, download_file, extract_dir, server_file, leaves) ==
    LET x == extractall(cache, download_file, extract_dir, leaves)
        r1 == rmtree(x.cache, download_file)
        r2 == rmtree(r1.cache, extract_dir)
    IN  IF x.ok THEN [extract_dir |-> extract_dir, cache |-> x.cache, asked |-> FALSE]
        ELSE IF ~r1.ok THEN [extract_dir |-> NoPath, cache |-> r1.cache, asked |-> FALSE]
        ELSE IF ~r2.ok THEN [extract_dir |-> NoPath, cache |-> r2.cache, asked |-> FALSE]
        ELSE perform_download(r2.cache, download_file, extract_dir, server_file, leaves)

\* download_url.split("/")[-1]
file_name_of(download_url) == split(download_url, "/")[Len(split(download_url, "/"))]

\* file_name.replace(".zip", "")
extract_dir_of(download_url) == replace(file_name_of(download_url), Zip, <<>>)

\* as download_and_extract_latest_server, had a remote version equal to the
\* local one been downloaded too
download_and_extract_latest_server_or_equal(cache, version, response_page, server_file, leaves) ==
    LET nothing == [extract_dir |-> NoPath, cache |-> cache, asked |-> FALSE]
        download_url == response_page.text
        remote_version == extract_numbers(download_url)
        download_file == file_name_of(download_url)
        extract_dir == extract_dir_of(download_url)
    IN  IF response_page.raised THEN nothing
        ELSE IF download_url = <<>> THEN nothing
        ELSE IF ~(compare_version(version, remote_version) <= 0) THEN nothing
        ELSE IF download_file \in cache.dir.files
             THEN use_cache(cache, download_file, extract_dir, server_file, leaves)
             ELSE perform_download(cache, download_file, extract_dir, server_file, leaves)

\* The whole function: [extract_dir, cache, asked], extract_dir being what it
\* returns, cache the download directory afterwards and asked whether it
\* requested the archive. Whatever is raised inside it ends it with None.
download_and_extract_latest_server(cache, version, response_page, server_file, leaves) ==
    LET nothing == [extract_dir |-> NoPath, cache |-> cache, asked |-> FALSE]
        download_url == response_page.text
        remote_version == extract_numbers(download_url)
        download_file == file_name_of(download_url)
        extract_dir == extract_dir_of(download_url)
    IN  IF response_page.raised THEN nothing
        ELSE IF download_url = <<>> THEN nothing
        ELSE IF ~(compare_version(version, remote_version) < 0) THEN nothing
        ELSE IF download_file \in cache.dir.files
             THEN use_cache(cache, download_file, extract_dir, server_file, leaves)
             ELSE perform_download(cache, download_file, extract_dir, server_file, leaves)

-----------------------------------------------------------------------------
(* __main__ *)

\* as after_download, had the merge not waited for the backup
after_download_no_backup(latest, keep_backup) ==
    IF latest # NoPath THEN "merge" ELSE "done"

\* as after_download, had the function not caught what is raised inside it
after_download_raises(latest, keep_backup) ==
    IF latest # NoPath
    THEN IF keep_backup # 0 THEN "backup" ELSE "merge"
    ELSE "crashed"

\* as after_download, had the pruning steps followed a failed download
after_download_prunes(latest, keep_backup) ==
    IF latest # NoPath
    THEN IF keep_backup # 0 THEN "backup" ELSE "merge"
    ELSE "prune_cache"

\* if latest_server_dir is not None: if args.keep_backup_num != 0: ...
\* the step that follows the download
after_download(latest, keep_backup) ==
    IF latest # NoPath
    THEN IF keep_backup # 0 THEN "backup" ELSE "merge"
    ELSE "done"

-----------------------------------------------------------------------------
(* The parts of the state a specification leaves out stay as they are here *)

RcIdle ==
    /\ source_file = NoFile
    /\ target_file = NoFile
    /\ target_before = NoFile
    /\ rc_pc = "ready"

PrIdle ==
    /\ download_dir = [files |-> {}, dirs |-> {}]
    /\ backup_dir = [files |-> {}, dirs |-> {}]
    /\ max_num = -1
    /\ dir_before = <<>>
    /\ pr_pc = "ready"

UpIdle ==
    /\ local_server_dir = NoTree
    /\ latest_server_dir = NoTree
    /\ other_dir = NoTree
    /\ target_arg = None
    /\ up_pc = "idle"
    /\ todo = {}
    /\ local_before = <<>>
    /\ latest_before = NoTree

RunIdle ==
    /\ run_pc = "idle"
    /\ behavior_packs = [exists |-> FALSE, names |-> {}]
    /\ keep_cache_num = 0
    /\ keep_backup_num = -1
    /\ backup_path = None
    /\ local_version = <<0>>
    /\ page = NoAnswer
    /\ response = NoAnswer
    /\ corrupt = {}
    /\ partial = {}
    /\ extracted = NoPath
    /\ installation = "original"
    /\ steps = <<>>
    /\ cache_before = NoCache
    /\ backup_before = [files |-> {}, dirs |-> {}]

CmpIdle ==
    /\ cmp_v1 = <<>>
    /\ cmp_v2 = <<>>
    /\ compared = 0
    /\ cmp_pc = "idle"

-----------------------------------------------------------------------------
(* Documents to reconcile *)

MaxLines == 2

Comment1  == <<"#", "c", "\n">>
Blank     == <<"\n">>
A1        == <<"a", "=", "1", "\n">>
A2        == <<"a", "=", "2", "\n">>
B1Spaced  == <<" ", "b", " ", "=", " ", "1", " ", "\n">>
B2        == <<"b", "=", "2", "\n">>
NoEq      == <<"a", "\n">>
TwoEq     == <<"a", "=", "1", "=", "2", "\n">>
HashKey   == <<" ", "#", "a", "=", "1", "\n">>
A2NoNl    == <<"a", "=", "2">>

SourceLines == {Comment1, A1, A2, B2, NoEq, TwoEq, A2NoNl}
TargetLines == {Comment1, Blank, A1, B1Spaced, TwoEq, HashKey, A2NoNl}

\* what readlines() can return: only the last line may lack its newline
Readable(doc) == \A i \in 1..(Len(doc) - 1) : doc[i][Len(doc[i])] = "\n"

Docs(lines) ==
    {d \in UNION {[1..n -> lines] : n \in 0..MaxLines} : Readable(d)}

RcInit ==
    /\ PrIdle /\ UpIdle /\ RunIdle /\ CmpIdle
    /\ source_file \in {File(d) : d \in Docs(SourceLines)}
    /\ target_file \in {File(d) : d \in Docs(TargetLines)}
    /\ target_before = target_file
    /\ rc_pc = "ready"

Reconcile ==
    /\ rc_pc = "ready"
    /\ LET r == update_server_properties(source_file, target_file)
       IN  /\ target_file' = r.target
           /\ rc_pc' = IF r.ok THEN "written" ELSE "failed"
    /\ UNCHANGED <<source_file, target_before>>
    /\ UNCHANGED <<prVars, upVars, runVars, cmpVars>>

SpecReconcile == RcInit /\ [][Reconcile]_vars

-----------------------------------------------------------------------------
(* What the claims about update_server_properties speak of *)

CountEq(line) == Cardinality({i \in 1..Len(line) : line[i] = "="})

\* every line that is neither a comment nor blank has exactly one "="
WellFormed(doc) == \A i \in key_lines(doc) : CountEq(doc[i]) = 1

Keys(doc) == {line_key(doc[i]) : i \in key_lines(doc)}

\* the values a document gives to key k, one per line of k
ValuesOf(doc, k) == {line_value(doc[i]) : i \in {j \in key_lines(doc) : line_key(doc[j]) = k}}

\* the value on the last line of key k
LastValueOf(doc, k) ==
    LET at == {j \in key_lines(doc) : line_key(doc[j]) = k}
        last == CHOOSE j \in at : \A m \in at : m <= j
    IN  line_value(doc[last])

KeyLine(k, v) == k \o <<"=">> \o v \o <<"\n">>

Src == source_file.doc
Old == target_before.doc
Out == target_file.doc

BothWellFormed == WellFormed(Src) /\ WellFormed(Old)

\* C6, as stated: on well-formed documents reconcile writes every key line of
\* the target with a value the source gives its key when the source has the
\* key, and with the line's own value when only the target has the key; no key
\* of the source alone is a key of the output.
C6_AsStated ==
    (rc_pc # "ready" /\ BothWellFormed) =>
        /\ rc_pc = "written"
        /\ Len(Out) = Len(Old)
        /\ \A i \in key_lines(Old) :
              LET k == line_key(Old[i])
              IN  IF k \in Keys(Src)
                  THEN \E v \in ValuesOf(Src, k) : Out[i] = KeyLine(k, v)
                  ELSE Out[i] = KeyLine(k, line_value(Old[i]))
        /\ \A k \in Keys(Src) \ Keys(Old) : k \notin Keys(Out)

\* C6, amended: on well-formed documents reconcile writes every key line of
\* the target with the value of the source's last line of its key when the
\* source has the key, and with the value of the target's last line of that key
\* when only the target has it (so lines that repeat a key all get one value);
\* no key of the source alone is a key of the output.
C6_LastLineWins ==
    (rc_pc # "ready" /\ BothWellFormed) =>
        /\ rc_pc = "written"
        /\ Len(Out) = Len(Old)
        /\ \A i \in key_lines(Old) :
              LET k == line_key(Old[i])
              IN  IF k \in Keys(Src)
                  THEN Out[i] = KeyLine(k, LastValueOf(Src, k))
                  ELSE Out[i] = KeyLine(k, LastValueOf(Old, k))
        /\ \A k \in Keys(Src) \ Keys(Old) : k \notin Keys(Out)

\* a key of both documents with different values, a key of the target alone
\* and a key of the source alone, reconciled
C6_Witness ==
    /\ rc_pc = "written"
    /\ \E k \in Keys(Src) \cap Keys(Old) : LastValueOf(Src, k) # LastValueOf(Old, k)
    /\ Keys(Old) \ Keys(Src) # {}
    /\ Keys(Src) \ Keys(Old) # {}

\* C7: on well-formed documents the document written back has as many lines
\* as the target had, every comment and blank line of the target verbatim at
\* its position, and at every position of a key line of the target a key line
\* with the same key (so the same keys in the same order, and the same comment
\* and blank positions).
C7_LayoutKept ==
    (rc_pc # "ready" /\ BothWellFormed) =>
        /\ rc_pc = "written"
        /\ Len(Out) = Len(Old)
        /\ \A i \in 1..Len(Old) :
              IF is_key_line(Old[i])
              THEN /\ is_key_line(Out[i])
                   /\ CountEq(Out[i]) = 1
                   /\ line_key(Out[i]) = line_key(Old[i])
              ELSE Out[i] = Old[i]

\* C10: when the source or the target has a line, neither comment nor blank,
\* with no "=" or with more than one, reconcile fails and the target document
\* is what it was.
C10_MalformedFails ==
    (rc_pc # "ready" /\ ~BothWellFormed) =>
        /\ rc_pc = "failed"
        /\ target_file = target_before

\* a well-formed source, a target with content and a malformed line, failed
C10_Witness ==
    /\ rc_pc = "failed"
    /\ WellFormed(Src)
    /\ ~WellFormed(Old)
    /\ \E i \in 1..Len(Old) : CountEq(Old[i]) > 1
    /\ Len(Old) > 1

-----------------------------------------------------------------------------
(* Directories to prune *)

MaxKeep == 2
MaxPrunes == 2

S13  == <<"s", "1", ".", "3">>
S1   == <<"s", "1">>
S12  == <<"s", "1", ".", "2">>
S012 == <<"s", "0", "1", ".", "2">>
S2   == <<"s", "2">>
Txt  == <<"t", "x", "t">>
D9   == <<"d", "9">>

CacheNames == {S13, S1, S12, S012, S2, Txt}

T7a  == <<"7", "-", "a">>
T07b == <<"0", "7", "-", "b">>
T12a == <<"1", "2", "-", "a">>
T3a  == <<"3", "-", "a">>
T30  == <<"3", "0">>
Tlog == <<"l", "o", "g">>

BackupNames == {T7a, T07b, T12a, T3a, T30, Tlog}

\* the orders in which os.listdir can name a set of files
Listings(files) ==
    {l \in [1..Cardinality(files) -> files] : \A i, j \in 1..Cardinality(files) : l[i] = l[j] => i = j}

PruneCacheInit ==
    /\ RcIdle /\ UpIdle /\ RunIdle /\ CmpIdle
    /\ download_dir \in [files : SUBSET CacheNames, dirs : {{}, {D9}}]
    /\ backup_dir = [files |-> {}, dirs |-> {}]
    /\ max_num \in -1..MaxKeep
    /\ dir_before = <<>>
    /\ pr_pc = "ready"

PruneCache ==
    /\ pr_pc = "ready"
    /\ Len(dir_before) < MaxPrunes
    /\ \E listing \in Listings(download_dir.files) :
          download_dir' = delete_download_cache_files(download_dir, listing, max_num)
    /\ dir_before' = Append(dir_before, download_dir)
    /\ UNCHANGED <<backup_dir, max_num, pr_pc>>
    /\ UNCHANGED <<rcVars, upVars, runVars, cmpVars>>

SpecPruneCache == PruneCacheInit /\ [][PruneCache]_vars

PruneBackupInit ==
    /\ RcIdle /\ UpIdle /\ RunIdle /\ CmpIdle
    /\ download_dir = [files |-> {}, dirs |-> {}]
    /\ backup_dir \in [files : SUBSET BackupNames, dirs : {{}, {D9}}]
    /\ max_num \in -1..MaxKeep
    /\ dir_before = <<>>
    /\ pr_pc = "ready"

PruneBackups ==
    /\ pr_pc = "ready"
    /\ Len(dir_before) < MaxPrunes
    /\ \E listing \in Listings(backup_dir.files) :
          LET r == delete_local_server_backup_files(backup_dir, listing, max_num)
          IN  /\ backup_dir' = r.dir
              /\ pr_pc' = IF r.ok THEN "ready" ELSE "failed"
    /\ dir_before' = Append(dir_before, backup_dir)
    /\ UNCHANGED <<download_dir, max_num>>
    /\ UNCHANGED <<rcVars, upVars, runVars, cmpVars>>

SpecPruneBackups == PruneBackupInit /\ [][PruneBackups]_vars

-----------------------------------------------------------------------------
(* What the claims about the pruners speak of *)

\* the calls of the pruner so far, and the directory before and after each
Prunes == 1..Len(dir_before)
CacheAfter(i) == IF i < Len(dir_before) THEN dir_before[i + 1] ELSE download_dir
BackupAfter(i) == IF i < Len(dir_before) THEN dir_before[i + 1] ELSE backup_dir

GREATER == 1

\* C4: after the download-cache pruner has run with a retention count N >= 0,
\* no deleted file has a version that compares GREATER than the version of a
\* file that survived, and with N = 0 no regular file survives.
C4_KeepsMostRecent ==
    \A i \in Prunes :
        LET before == dir_before[i].files
            after == CacheAfter(i).files
        IN  max_num >= 0 =>
              /\ \A d \in before \ after : \A f \in after :
                    compare_version(extract_numbers(d), extract_numbers(f)) # GREATER
              /\ max_num = 0 => after = {}

\* the file name starts with digits, up to its first "-" or its end
IntegerPrefix(filename) ==
    \E n \in 1..Len(filename) :
        /\ \A i \in 1..n : filename[i] \in Digits
        /\ n = Len(filename) \/ filename[n + 1] = "-"

TimestampOf(filename) ==
    LET n == CHOOSE m \in 1..Len(filename) :
                 /\ \A i \in 1..m : filename[i] \in Digits
                 /\ m = Len(filename) \/ filename[m + 1] = "-"
    IN  int(SubSeq(filename, 1, n))

\* C5: after the backup pruner has run with a retention count N >= 0 on a
\* directory whose regular files all start with an integer timestamp, exactly
\* min(N, number of files before) files remain, and no deleted file has a
\* timestamp greater than that of a file that survived.
C5_KeepsNewestBackups ==
    \A i \in Prunes :
        LET before == dir_before[i].files
            after == BackupAfter(i).files
        IN  (max_num >= 0 /\ \A f \in before : IntegerPrefix(f)) =>
              /\ pr_pc = "ready"
              /\ after \subseteq before
              /\ Cardinality(after) = Min(max_num, Cardinality(before))
              /\ \A d \in before \ after : \A f \in after :
                    TimestampOf(d) <= TimestampOf(f)

\* a pruning of backups that deleted an older file, and one of two files of
\* the same timestamp
C5_Witness ==
    /\ Len(dir_before) = 1
    /\ pr_pc = "ready"
    /\ max_num = 2
    /\ \A f \in dir_before[1].files : IntegerPrefix(f)
    /\ \E d \in dir_before[1].files \ backup_dir.files : \E f \in backup_dir.files :
          TimestampOf(d) < TimestampOf(f)
    /\ \E d \in dir_before[1].files \ backup_dir.files : \E f \in backup_dir.files :
          TimestampOf(d) = TimestampOf(f)

-----------------------------------------------------------------------------
(* Merging a release into an installation *)

MaxMerges == 2

\* server.properties of an installation and of a release
UserProperties == {<<A2, B2>>, <<HashKey, A2NoNl>>, <<NoEq>>}
ReleaseProperties == {<<Comment1, A1, B1Spaced>>, <<HashKey, A1>>}

Installations ==
    {t \in [exists : {TRUE},
            e : [EntryNames -> {Absent, FileOf("user"), DirOf({}), DirOf({<<"f1", "user">>})}],
            properties : {NoFile} \cup {File(d) : d \in UserProperties},
            temp : {NoFile}] :
        /\ t.e["worlds"].kind # "file"
        /\ t.e["allowlist.json"].data \in {{}, {<<"", "user">>}}
        /\ t.e["permissions.json"] \in {FileOf("user"), DirOf({})}
        /\ t.e["bedrock_server"] \in {FileOf("user"), DirOf({})}}

\* a release holds its own worlds, allowlist.json and permissions.json, or none
Releases ==
    {t \in [exists : {TRUE},
            e : [EntryNames -> {Absent, FileOf("release"), DirOf({<<"f1", "release">>})}],
            properties : {NoFile} \cup {File(d) : d \in ReleaseProperties},
            temp : {NoFile}] :
        /\ t.e["bedrock_server"].kind # "absent"
        /\ t.e["worlds"].kind # "file"
        /\ t.e["allowlist.json"].kind # "dir"
        /\ t.e["permissions.json"].kind = t.e["allowlist.json"].kind
        /\ (t.e["worlds"].kind = "absent") = (t.e["allowlist.json"].kind = "absent")}

\* what another target directory can hold beforehand, if it is there at all
OtherDirs ==
    {NoTree} \cup
    {t \in [exists : {TRUE},
            e : [EntryNames -> {Absent, FileOf("stale"), DirOf({}), DirOf({<<"f2", "stale">>})}],
            properties : {NoFile, File(<<B2>>)},
            temp : {NoFile}] :
        /\ t.e["worlds"] \in {Absent, FileOf("stale"), DirOf({<<"f2", "stale">>})}
        /\ t.e["allowlist.json"] \in {Absent, FileOf("stale"), DirOf({})}
        /\ t.e["permissions.json"] = Absent
        /\ t.e["bedrock_server"] = Absent}

MergeInit ==
    /\ RcIdle /\ PrIdle /\ RunIdle /\ CmpIdle
    /\ local_server_dir \in Installations
    /\ latest_server_dir \in Releases
    /\ target_arg \in {None, "srv", "srv/", "new"}
    /\ other_dir \in IF target_arg = "new" THEN OtherDirs ELSE {NoTree}
    /\ up_pc = "start"
    /\ todo = {}
    /\ local_before = <<>>
    /\ latest_before = latest_server_dir

target_server_dir == target_path(target_arg)

\* the tree the target path leads to, and its replacement by t
InPlace == directory_of(target_server_dir) = directory_of(ServerDir)
Target == IF InPlace THEN local_server_dir ELSE other_dir
SetTarget(t) ==
    IF InPlace
    THEN local_server_dir' = t /\ UNCHANGED other_dir
    ELSE other_dir' = t /\ UNCHANGED local_server_dir

Raise == up_pc' = "failed"

\* os.makedirs(target_server_dir, exist_ok=True)
MakeTarget ==
    /\ up_pc = "start"
    /\ local_before' = Append(local_before, local_server_dir)
    /\ SetTarget(IF Target.exists THEN Target ELSE EmptyTree)
    /\ up_pc' = "copy_release"
    /\ UNCHANGED <<latest_server_dir, target_arg, todo, latest_before>>
    /\ UNCHANGED <<rcVars, prVars, runVars, cmpVars>>

\* 1. copy non-special files from latest_server_dir to target_server_dir
CopyRelease ==
    /\ up_pc = "copy_release"
    /\ LET r == copy_release(SortedNames, latest_server_dir, Target)
       IN  /\ SetTarget(r.tree)
           /\ IF ~r.ok THEN Raise /\ UNCHANGED todo
              ELSE IF copies_special(target_server_dir, ServerDir)
                   THEN up_pc' = "copy_special"
                        /\ todo' = SPECIAL_PATHS \ {"server.properties"}
                   ELSE up_pc' = "copy_properties" /\ UNCHANGED todo
    /\ UNCHANGED <<latest_server_dir, target_arg, local_before, latest_before>>
    /\ UNCHANGED <<rcVars, prVars, runVars, cmpVars>>

\* 2. copy special files from local_server_dir to target_server_dir, one at
\* a time, in the order the set happens to be iterated in
CopySpecial ==
    /\ up_pc = "copy_special"
    /\ \E filename \in todo :
          LET r == copy_entry(local_server_dir.e[filename], Target.e[filename],
                              filename, InPlace)
          IN  /\ SetTarget([Target EXCEPT !.e[filename] = r.to])
              /\ todo' = todo \ {filename}
              /\ IF ~r.ok THEN Raise
                 ELSE up_pc' = IF todo' = {} THEN "copy_properties" ELSE "copy_special"
    /\ UNCHANGED <<latest_server_dir, target_arg, local_before, latest_before>>
    /\ UNCHANGED <<rcVars, prVars, runVars, cmpVars>>

\* as CopyProperties, had the target's server.properties been removed before
\* the reconciliation, not after it
CopyProperties_removing ==
    /\ up_pc = "copy_properties"
    /\ IF latest_server_dir.properties.there
       THEN /\ SetTarget([Target EXCEPT !.temp = latest_server_dir.properties,
                                        !.properties = NoFile])
            /\ up_pc' = "update_properties"
       ELSE Raise /\ UNCHANGED <<local_server_dir, other_dir>>
    /\ UNCHANGED <<latest_server_dir, target_arg, todo, local_before, latest_before>>
    /\ UNCHANGED <<rcVars, prVars, runVars, cmpVars>>

\* 3. shutil.copy2(latest_property_file, new_property_file_temp)
CopyProperties ==
    /\ up_pc = "copy_properties"
    /\ IF latest_server_dir.properties.there
       THEN /\ SetTarget([Target EXCEPT !.temp = latest_server_dir.properties])
            /\ up_pc' = "update_properties"
       ELSE Raise /\ UNCHANGED <<local_server_dir, other_dir>>
    /\ UNCHANGED <<latest_server_dir, target_arg, todo, local_before, latest_before>>
    /\ UNCHANGED <<rcVars, prVars, runVars, cmpVars>>

\* update_server_properties(old_property_file, new_property_file_temp)
UpdateProperties ==
    /\ up_pc = "update_properties"
    /\ LET r == update_server_properties(local_server_dir.properties, Target.temp)
       IN  /\ SetTarget([Target EXCEPT !.temp = r.target])
           /\ IF r.ok THEN up_pc' = "remove_properties" ELSE Raise
    /\ UNCHANGED <<latest_server_dir, target_arg, todo, local_before, latest_before>>
    /\ UNCHANGED <<rcVars, prVars, runVars, cmpVars>>

\* if os.path.exists(new_property_file): os.remove(new_property_file)
RemoveProperties ==
    /\ up_pc = "remove_properties"
    /\ SetTarget([Target EXCEPT !.properties = NoFile])
    /\ up_pc' = "rename_properties"
    /\ UNCHANGED <<latest_server_dir, target_arg, todo, local_before, latest_before>>
    /\ UNCHANGED <<rcVars, prVars, runVars, cmpVars>>

\* os.rename(new_property_file_temp, new_property_file)
RenameProperties ==
    /\ up_pc = "rename_properties"
    /\ SetTarget([Target EXCEPT !.properties = Target.temp, !.temp = NoFile])
    /\ up_pc' = "remove_old_server"
    /\ UNCHANGED <<latest_server_dir, target_arg, todo, local_before, latest_before>>
    /\ UNCHANGED <<rcVars, prVars, runVars, cmpVars>>

\* 4. remove the old server
RemoveOldServer ==
    /\ up_pc = "remove_old_server"
    /\ IF removes_old_server(target_server_dir, ServerDir)
       THEN local_server_dir' = NoTree
       ELSE UNCHANGED local_server_dir
    /\ up_pc' = "remove_latest"
    /\ UNCHANGED <<latest_server_dir, other_dir, target_arg, todo, local_before,
                   latest_before>>
    /\ UNCHANGED <<rcVars, prVars, runVars, cmpVars>>

\* 5. remove the latest_server_dir
RemoveLatest ==
    /\ up_pc = "remove_latest"
    /\ latest_server_dir' = NoTree
    /\ up_pc' = "done"
    /\ UNCHANGED <<local_server_dir, other_dir, target_arg, todo, local_before,
                   latest_before>>
    /\ UNCHANGED <<rcVars, prVars, runVars, cmpVars>>

\* the next run, in place: the same release is unpacked again and merged
ExtractAgain ==
    /\ up_pc = "done"
    /\ target_server_dir = ServerDir
    /\ Len(local_before) < MaxMerges
    /\ latest_server_dir' = latest_before
    /\ up_pc' = "start"
    /\ UNCHANGED <<local_server_dir, other_dir, target_arg, todo, local_before,
                   latest_before>>
    /\ UNCHANGED <<rcVars, prVars, runVars, cmpVars>>

MergeNext ==
    \/ MakeTarget
    \/ CopyRelease
    \/ CopySpecial
    \/ CopyProperties
    \/ UpdateProperties
    \/ RemoveProperties
    \/ RenameProperties
    \/ RemoveOldServer
    \/ RemoveLatest
    \/ ExtractAgain

SpecMerge == MergeInit /\ [][MergeNext]_vars

-----------------------------------------------------------------------------
(* What the claims about update_server speak of *)

\* worlds, allowlist.json and permissions.json
Protected == SPECIAL_PATHS \ {"server.properties"}

\* the installation as it was when the merge under way began
LocalBefore == local_before[Len(local_before)]

\* the key and value of every key line of a document
KeyValues(file) == {<<line_key(file.doc[i]), line_value(file.doc[i])>> : i \in key_lines(file.doc)}

\* C1: when a merge completes, in place or into another directory, the
\* target's worlds, allowlist.json and permissions.json hold exactly what the
\* installation's held before the merge.
C1_ProtectedVerbatim ==
    up_pc = "done" => \A name \in Protected : Target.e[name] = LocalBefore.e[name]

\* C2: through a second merge in place of the same release unpacked again,
\* worlds, allowlist.json and permissions.json stay what they were after the
\* first merge; the second merge does not fail, and when it completes
\* server.properties has the keys and values it had after the first.
C2_SecondMergeKeepsUserData ==
    Len(local_before) = 2 =>
        /\ up_pc # "failed"
        /\ \A name \in Protected : local_server_dir.e[name] = local_before[2].e[name]
        /\ up_pc = "done" =>
              /\ local_server_dir.properties.there
              /\ KeyValues(local_server_dir.properties) = KeyValues(local_before[2].properties)

\* a second merge in place, completed, of a release with a worlds of its own,
\* into an installation whose world and whose value of key a are the user's,
\* the first merge having rewritten server.properties
C2_Witness ==
    /\ Len(local_before) = 2
    /\ up_pc = "done"
    /\ latest_before.e["worlds"].kind = "dir"
    /\ local_server_dir.e["worlds"] = DirOf({<<"f1", "user">>})
    /\ <<<<"a">>, <<"2">>>> \in KeyValues(local_server_dir.properties)
    /\ local_before[1].properties # local_before[2].properties

\* C3: the installation directory is deleted only when the target path leads
\* to another directory, and only once steps 2 to 4 are through; when the
\* merge fails, the installation and the release are both still there.
C3_OldServerRemovedOnlyIfDistinct ==
    /\ ~local_server_dir.exists => (~InPlace /\ up_pc \in {"remove_latest", "done"})
    /\ up_pc = "failed" => (local_server_dir.exists /\ latest_server_dir.exists)

-----------------------------------------------------------------------------
(* The main run *)

V12 == Vanilla \o <<"1", ".", "2">>
V13 == Vanilla \o <<"1", ".", "3">>
Chem == <<"c", "h", "e", "m", "9">>
PackListings == {{}, {V12}, {V13}, {V12, V13}, {Chem, V12}}

\* the retention counts of a run go up to MaxRunKeep
MaxRunKeep == 1

\* the archives the download page can name, and what it can link to
Z12 == S12 \o Zip
Z13 == S13 \o Zip
Bin == <<"b", "i", "n", "/">>
Pages ==
    {[raised |-> TRUE, status_code |-> 0, text |-> <<>>],
     [raised |-> FALSE, status_code |-> 200, text |-> <<>>],
     [raised |-> FALSE, status_code |-> 200, text |-> Bin \o Z12],
     [raised |-> FALSE, status_code |-> 200, text |-> Bin \o Z13]}

\* the answers to the request of an archive
Responses ==
    {[raised |-> TRUE, status_code |-> 0, text |-> <<>>],
     [raised |-> FALSE, status_code |-> 404, text |-> <<>>],
     [raised |-> FALSE, status_code |-> 200, text |-> Archive],
     [raised |-> FALSE, status_code |-> 200, text |-> <<"x">>]}

\* f"{now_time}-{os.path.basename(server_dir)}.zip"
NewBackup == <<"1", "2", "-", "s", "r", "v">> \o Zip

Cache == [dir |-> download_dir, corrupt |-> corrupt, partial |-> partial]

RunInit ==
    /\ RcIdle /\ UpIdle /\ CmpIdle
    /\ download_dir \in [files : SUBSET {Z12, Z13}, dirs : SUBSET {S13}]
    /\ corrupt \in SUBSET (download_dir.files \cap {Z13})
    /\ partial \in SUBSET download_dir.dirs
    /\ backup_dir \in [files : SUBSET {T7a, Tlog}, dirs : {{}}]
    /\ max_num = -1
    /\ dir_before = <<>>
    /\ pr_pc = "ready"
    /\ run_pc = "start"
    /\ behavior_packs \in
          {[exists |-> FALSE, names |-> {}]} \cup [exists : {TRUE}, names : PackListings]
    /\ keep_cache_num \in -1..MaxRunKeep
    /\ keep_backup_num \in -1..MaxRunKeep
    /\ backup_path \in {None, "bak"}
    /\ local_version = <<0>>
    /\ page = NoAnswer
    /\ response = NoAnswer
    /\ extracted = NoPath
    /\ installation = "original"
    /\ steps = <<>>
    /\ cache_before = Cache
    /\ backup_before = backup_dir

\* if args.backup_dir is None and args.keep_backup_num != 0: set the backup dir
SetBackupDir ==
    /\ run_pc = "start"
    /\ backup_path' = IF backup_path = None /\ keep_backup_num # 0
                      THEN "server_backups" ELSE backup_path
    /\ run_pc' = "version"
    /\ UNCHANGED <<behavior_packs, keep_cache_num, keep_backup_num, local_version, page,
                   response, corrupt, partial, extracted, installation, steps, cache_before, backup_before>>
    /\ UNCHANGED <<rcVars, prVars, upVars, cmpVars>>

\* local_version = get_local_server_version(args.server_dir); os.listdir
\* raises when there is no behavior_packs
LocalVersion ==
    /\ run_pc = "version"
    /\ IF behavior_packs.exists
       THEN /\ \E listing \in Listings(behavior_packs.names) :
                  local_version' = get_local_server_version(listing)
            /\ run_pc' = "download"
       ELSE /\ run_pc' = "crashed"
            /\ UNCHANGED local_version
    /\ UNCHANGED <<behavior_packs, keep_cache_num, keep_backup_num, backup_path, page,
                   response, corrupt, partial, extracted, installation, steps, cache_before, backup_before>>
    /\ UNCHANGED <<rcVars, prVars, upVars, cmpVars>>

\* latest_server_dir = download_and_extract_latest_server(...), and the test
\* of what it returned
Download ==
    /\ run_pc = "download"
    /\ \E response_page \in Pages, server_file \in Responses, leaves \in BOOLEAN :
          LET r == download_and_extract_latest_server(Cache, local_version, response_page,
                                                      server_file, leaves)
          IN  /\ page' = response_page
              /\ response' = IF r.asked THEN server_file ELSE NoAnswer
              /\ download_dir' = r.cache.dir
              /\ corrupt' = r.cache.corrupt
              /\ partial' = r.cache.partial
              /\ extracted' = r.extract_dir
              /\ run_pc' = after_download(r.extract_dir, keep_backup_num)
    /\ UNCHANGED <<behavior_packs, keep_cache_num, keep_backup_num, backup_path,
                   local_version, installation, steps, cache_before, backup_before>>
    /\ UNCHANGED <<backup_dir, max_num, dir_before, pr_pc>>
    /\ UNCHANGED <<rcVars, upVars, cmpVars>>

\* backup_local_server(...): it writes the archive, or raises, the archive
\* begun or not
Backup ==
    /\ run_pc = "backup"
    /\ steps' = Append(steps, "backup")
    /\ \E ok \in BOOLEAN, written \in BOOLEAN :
          /\ ok => written
          /\ backup_dir' = IF written
                           THEN [backup_dir EXCEPT !.files = @ \cup {NewBackup}]
                           ELSE backup_dir
          /\ run_pc' = IF ok THEN "merge" ELSE "crashed"
    /\ UNCHANGED <<behavior_packs, keep_cache_num, keep_backup_num, backup_path, local_version,
                   page, response, corrupt, partial, extracted, installation, cache_before, backup_before>>
    /\ UNCHANGED <<download_dir, max_num, dir_before, pr_pc>>
    /\ UNCHANGED <<rcVars, upVars, cmpVars>>

\* update_server(...): it merges and removes the unpacked release, or raises
Merge ==
    /\ run_pc = "merge"
    /\ steps' = Append(steps, "merge")
    /\ \E ok \in BOOLEAN :
          IF ok
          THEN /\ installation' = "merged"
               /\ download_dir' = [download_dir EXCEPT !.dirs = @ \ {extracted}]
               /\ run_pc' = "prune_cache"
          ELSE /\ installation' \in {"original", "merging"}
               /\ UNCHANGED download_dir
               /\ run_pc' = "crashed"
    /\ UNCHANGED <<behavior_packs, keep_cache_num, keep_backup_num, backup_path, local_version,
                   page, response, corrupt, partial, extracted, cache_before, backup_before>>
    /\ UNCHANGED <<backup_dir, max_num, dir_before, pr_pc>>
    /\ UNCHANGED <<rcVars, upVars, cmpVars>>

\* delete_download_cache_files(args.download_dir, args.keep_cache_num)
RunPruneCache ==
    /\ run_pc = "prune_cache"
    /\ steps' = Append(steps, "prune_cache")
    /\ \E listing \in Listings(download_dir.files) :
          download_dir' = delete_download_cache_files(download_dir, listing, keep_cache_num)
    /\ corrupt' = corrupt \cap download_dir'.files
    /\ run_pc' = "prune_backups"
    /\ UNCHANGED <<behavior_packs, keep_cache_num, keep_backup_num, backup_path, local_version,
                   page, response, partial, extracted, installation, cache_before, backup_before>>
    /\ UNCHANGED <<backup_dir, max_num, dir_before, pr_pc>>
    /\ UNCHANGED <<rcVars, upVars, cmpVars>>

\* delete_local_server_backup_files(args.backup_dir, args.keep_backup_num);
\* with no backup directory it lists the current directory and raises on
\* joining None and the first name, if there is one
RunPruneBackups ==
    /\ run_pc = "prune_backups"
    /\ steps' = Append(steps, "prune_backups")
    /\ IF backup_path = None
       THEN /\ \E empty \in BOOLEAN : run_pc' = IF empty THEN "done" ELSE "crashed"
            /\ UNCHANGED backup_dir
       ELSE \E listing \in Listings(backup_dir.files) :
               LET r == delete_local_server_backup_files(backup_dir, listing, keep_backup_num)
               IN  /\ backup_dir' = r.dir
                   /\ run_pc' = IF r.ok THEN "done" ELSE "crashed"
    /\ UNCHANGED <<behavior_packs, keep_cache_num, keep_backup_num, backup_path, local_version,
                   page, response, corrupt, partial, extracted, installation, cache_before, backup_before>>
    /\ UNCHANGED <<download_dir, max_num, dir_before, pr_pc>>
    /\ UNCHANGED <<rcVars, upVars, cmpVars>>

RunNext ==
    \/ SetBackupDir
    \/ LocalVersion
    \/ Download
    \/ Backup
    \/ Merge
    \/ RunPruneCache
    \/ RunPruneBackups

SpecRun == RunInit /\ [][RunNext]_vars

-----------------------------------------------------------------------------
(* What the claims about the main run speak of *)

\* the download has returned
Downloaded == run_pc \notin {"idle", "start", "version", "download"}
RunEnded == run_pc \in {"done", "crashed"}

\* the page named an archive of a version above the local one
NewVersion ==
    /\ Downloaded
    /\ ~page.raised
    /\ page.text # <<>>
    /\ compare_version(local_version, extract_numbers(page.text)) < 0

\* the archive of the new version was in the cache when the run began, and
\* could not be unpacked
CachedCorrupt == NewVersion /\ file_name_of(page.text) \in cache_before.corrupt

\* C8: when the archive of the new version is in the cache and fails to
\* unpack, the run requests the archive again, and it does not end with the
\* corrupt archive or an unfinished extraction directory on disk.
C8_CorruptCacheReplaced ==
    (CachedCorrupt /\ RunEnded) =>
        /\ response # NoAnswer
        /\ file_name_of(page.text) \notin corrupt
        /\ extract_dir_of(page.text) \notin partial

\* the request of the page raised, the page named no archive, or the request
\* of the archive raised or was not answered 200
RemoteFailed ==
    /\ Downloaded
    /\ \/ page.raised
       \/ page.status_code = 200 /\ page.text = <<>>
       \/ response.raised
       \/ response # NoAnswer /\ ~response.raised /\ response.status_code # 200

\* C9 as the specification has it: after a failure of the remote side the run
\* makes no backup and no merge, and has run both pruners when it finishes.
C9_PrunesAfterRemoteFailure ==
    (RemoteFailed /\ run_pc = "done") => steps = <<"prune_cache", "prune_backups">>

\* C9: after a failure of the remote side the run finishes at once: it makes
\* no backup, merges nothing and runs neither pruner, so that no backup is
\* written and every cached file is still there.
C9_NothingAfterRemoteFailure ==
    RemoteFailed =>
        /\ run_pc = "done"
        /\ steps = <<>>
        /\ installation = "original"
        /\ NewBackup \notin backup_dir.files
        /\ download_dir.files = cache_before.dir.files

\* the archive was requested and answered 404, and the run is over with a
\* cached archive that the pruner, keeping none, would have removed
C9_Witness ==
    /\ RemoteFailed
    /\ run_pc = "done"
    /\ response.status_code = 404
    /\ keep_cache_num = 0
    /\ download_dir.files # {}
    /\ keep_backup_num = 1
    /\ backup_dir.files = {T7a, Tlog}

-----------------------------------------------------------------------------
(* What the claims about a pruner run twice speak of *)

\* C11, the download cache: a second pruning with the same retention count
\* deletes nothing.
C11_CachePrunerIdempotent ==
    Len(dir_before) = 2 => download_dir.files = dir_before[2].files

\* C11, the backups: a second pruning with the same retention count deletes
\* nothing.
C11_BackupPrunerIdempotent ==
    Len(dir_before) = 2 => backup_dir.files = dir_before[2].files

\* two prunings of backups, the first of which deleted a file and left one
C11_BackupWitness ==
    /\ Len(dir_before) = 2
    /\ pr_pc = "ready"
    /\ max_num = 1
    /\ dir_before[1].files # dir_before[2].files
    /\ backup_dir.files # {}

\* either pruner, called on either directory
PruneInit == PruneCacheInit \/ PruneBackupInit
PruneNext == PruneCache \/ PruneBackups
SpecPrune == PruneInit /\ [][PruneNext]_vars

\* the retention count is negative, or at least the number of regular files
NothingToPrune(dir) == max_num < 0 \/ max_num >= Cardinality(dir.files)

\* C12: a pruner deletes no file of a directory when the retention count is
\* negative or is at least the number of regular files of the directory.
C12_NothingToPrune ==
    [][/\ NothingToPrune(download_dir) => download_dir'.files = download_dir.files
       /\ NothingToPrune(backup_dir) => backup_dir'.files = backup_dir.files]_vars

\* the download cache has been pruned with a retention count that is the
\* number of its files, which are of two versions that compare equal
C12_Witness ==
    /\ Len(dir_before) = 2
    /\ dir_before[1] = download_dir
    /\ download_dir.files = {S1, S12}
    /\ max_num = 2

-----------------------------------------------------------------------------
(* What the claims about the end of a run speak of *)

\* the download page has been requested, and the download has returned
Fetched == Downloaded /\ page # NoAnswer

\* C13 as the specification has it: no run ends in an error state.
C13_AlwaysSuccess == run_pc # "crashed"

\* C13: no failure of the fetch, of the download or of the unpacking ends the
\* run in an error state: a run that raised before any step began raised in
\* the scan of the local version, and a run whose download returned nothing
\* is over, with success and with no step begun.
C13_DownloadFailuresSwallowed ==
    /\ (run_pc = "crashed" /\ steps = <<>>) => ~behavior_packs.exists
    /\ (Fetched /\ extracted = NoPath) => (run_pc = "done" /\ steps = <<>>)

\* a run that is over with success after it downloaded a file it could not
\* unpack
C13_Witness ==
    /\ run_pc = "done"
    /\ NewVersion
    /\ response.status_code = 200
    /\ response.text # Archive
    /\ file_name_of(page.text) \in corrupt \ cache_before.corrupt
    /\ extracted = NoPath

-----------------------------------------------------------------------------
(* get_local_server_version on its own *)

V1 == Vanilla \o <<"1">>
V05 == Vanilla \o <<"0", ".", "5">>
V012 == Vanilla \o <<"0", "1", ".", "2">>
VNone == Vanilla \o <<"b", "e", "t", "a">>
VTwice == Vanilla \o Vanilla \o <<"1", ".", "2", ".", "1">>
ScanNames == {V12, V13, V1, V05, V012, VNone, VTwice, Chem}

\* behavior_packs holds up to MaxPacks entries
MaxPacks == 4

ScanInit ==
    /\ RcIdle /\ PrIdle /\ UpIdle /\ CmpIdle
    /\ run_pc = "scan"
    /\ behavior_packs \in
          [exists : {TRUE}, names : {n \in SUBSET ScanNames : Cardinality(n) <= MaxPacks}]
    /\ keep_cache_num = 0
    /\ keep_backup_num = -1
    /\ backup_path = None
    /\ local_version = <<0>>
    /\ page = NoAnswer
    /\ response = NoAnswer
    /\ corrupt = {}
    /\ partial = {}
    /\ extracted = NoPath
    /\ installation = "original"
    /\ steps = <<>>
    /\ cache_before = NoCache
    /\ backup_before = [files |-> {}, dirs |-> {}]

\* get_local_server_version(args.server_dir)
Scan ==
    /\ run_pc = "scan"
    /\ \E listing \in Listings(behavior_packs.names) :
          local_version' = get_local_server_version(listing)
    /\ run_pc' = "scanned"
    /\ UNCHANGED <<behavior_packs, keep_cache_num, keep_backup_num, backup_path, page,
                   response, corrupt, partial, extracted, installation, steps, cache_before, backup_before>>
    /\ UNCHANGED <<rcVars, prVars, upVars, cmpVars>>

SpecScan == ScanInit /\ [][Scan]_vars

\* the entries whose names start with the prefix, and the version of one
VanillaPacks == {n \in behavior_packs.names : startswith(n, Vanilla)}
PackVersion(n) == extract_numbers(replace(n, Vanilla, <<>>))

\* C14: the local version returned is [0] or the version of an entry whose
\* name starts with the prefix, and no such entry has a version that compares
\* GREATER than it.
C14_LocalVersionIsHighest ==
    run_pc = "scanned" =>
        /\ local_version = <<0>> \/ \E n \in VanillaPacks : PackVersion(n) = local_version
        /\ \A n \in VanillaPacks : compare_version(PackVersion(n), local_version) # GREATER

\* a scan that returned [1, 3], of entries among which one has a version that
\* is a prefix of it, one has none and one lacks the prefix
C14_Witness ==
    /\ run_pc = "scanned"
    /\ local_version = <<1, 3>>
    /\ behavior_packs.names = {V1, V13, VNone, Chem}

-----------------------------------------------------------------------------
(* compare_version on its own *)

\* versions of up to MaxLen components, each up to MaxComponent
MaxLen == 3
MaxComponent == 3
Versions == UNION {[1..n -> 0..MaxComponent] : n \in 0..MaxLen}

CompareInit ==
    /\ RcIdle /\ PrIdle /\ UpIdle /\ RunIdle
    /\ cmp_v1 \in Versions
    /\ cmp_v2 \in Versions
    /\ compared = 0
    /\ cmp_pc = "ready"

\* compare_version(v1, v2)
Compare ==
    /\ cmp_pc = "ready"
    /\ compared' = compare_version(cmp_v1, cmp_v2)
    /\ cmp_pc' = "returned"
    /\ UNCHANGED <<cmp_v1, cmp_v2>>
    /\ UNCHANGED <<rcVars, prVars, upVars, runVars>>

SpecCompare == CompareInit /\ [][Compare]_vars

LESS == -1
EQUAL == 0

\* the positions of the shared prefix at which the two versions differ
Differing == {i \in 1..Min(Len(cmp_v1), Len(cmp_v2)) : cmp_v1[i] # cmp_v2[i]}

\* C15: compare is EQUAL when the shared prefix is identical, whatever the
\* lengths, and is otherwise decided by the first position of the shared
\* prefix at which the versions differ; so [1,2] and [1,2,3] are EQUAL,
\* [1,3] is GREATER than [1,2,3], and [] and [1] are EQUAL.
C15_FirstDifferenceDecides ==
    cmp_pc = "returned" =>
        /\ Differing = {} => compared = EQUAL
        /\ \A i \in Differing :
              (\A j \in Differing : i <= j) =>
                  compared = IF cmp_v1[i] < cmp_v2[i] THEN LESS ELSE GREATER
        /\ (cmp_v1 = <<1, 2>> /\ cmp_v2 = <<1, 2, 3>>) => compared = EQUAL
        /\ (cmp_v1 = <<1, 3>> /\ cmp_v2 = <<1, 2, 3>>) => compared = GREATER
        /\ (cmp_v1 = <<>> /\ cmp_v2 = <<1>>) => compared = EQUAL

\* [1, 2] has been compared with [1, 2, 3]
C15_Witness ==
    /\ cmp_pc = "returned"
    /\ cmp_v1 = <<1, 2>>
    /\ cmp_v2 = <<1, 2, 3>>
    /\ compared = EQUAL

-----------------------------------------------------------------------------
(* What the claims about an up-to-date installation and about the backup   *)
(* speak of                                                                *)

\* the page named an archive whose version does not compare GREATER than the
\* local one
UpToDate ==
    /\ Fetched
    /\ ~page.raised
    /\ page.text # <<>>
    /\ compare_version(extract_numbers(page.text), local_version) # GREATER

\* C16: when the version the page names does not compare GREATER than the
\* local one, the run requests no archive and is over without a backup, a
\* merge or a pruning, the download cache as it was when the run began, the
\* backup directory and the installation untouched.
C16_UpToDateChangesNothing ==
    UpToDate =>
        /\ run_pc = "done"
        /\ steps = <<>>
        /\ response = NoAnswer
        /\ Cache = cache_before
        /\ backup_dir = backup_before
        /\ installation = "original"

\* a run over with local version [1, 3] and a page that names 1.3, cached
\* files and backups there being that a pruning would have deleted
C16_Witness ==
    /\ UpToDate
    /\ run_pc = "done"
    /\ local_version = <<1, 3>>
    /\ extract_numbers(page.text) = <<1, 3>>
    /\ keep_cache_num = 0
    /\ download_dir.files = {Z12, Z13}
    /\ keep_backup_num = 0
    /\ backup_dir.files = {T7a, Tlog}

\* the step the run began last
LastStep == steps[Len(steps)]

\* C17: with a backup retention count other than 0, the run begins a merge
\* only once the backup is written, the installation being untouched until
\* then, and nothing but the merge touches the installation; when the backup
\* raises, neither the merge nor a pruning is begun.
C17_BackupBeforeMerge ==
    /\ (keep_backup_num # 0 /\ run_pc = "merge") =>
          /\ steps = <<"backup">>
          /\ NewBackup \in backup_dir.files
          /\ installation = "original"
    /\ (keep_backup_num # 0 /\ installation # "original") =>
          (Len(steps) >= 2 /\ steps[1] = "backup" /\ steps[2] = "merge")
    /\ (run_pc = "crashed" /\ steps # <<>> /\ LastStep = "backup") =>
          (steps = <<"backup">> /\ installation = "original")

\* a run that has merged after it wrote the backup
C17_Witness ==
    /\ keep_backup_num = 1
    /\ run_pc = "prune_cache"
    /\ steps = <<"backup", "merge">>
    /\ installation = "merged"
    /\ NewBackup \in backup_dir.files \ backup_before.files

-----------------------------------------------------------------------------
(* What the claim about the configuration step of update_server speaks of *)

\* step 3 is about to begin, is under way or is through, or the merge raised
InConfigurationStep ==
    up_pc \in {"copy_properties", "update_properties", "remove_properties",
               "rename_properties", "remove_old_server", "failed"}

\* the installation's server.properties reconciled with the release's
Reconciled == update_server_properties(LocalBefore.properties, latest_before.properties)

\* C18: throughout the configuration step of a merge of an installation that
\* has a server.properties, the installation's original server.properties is
\* still there, or the target holds a fully reconciled file as
\* server.properties.temp or as server.properties.
C18_ConfigurationOnDisk ==
    (InConfigurationStep /\ local_before # <<>> /\ LocalBefore.properties.there) =>
        \/ local_server_dir.exists /\ local_server_dir.properties = LocalBefore.properties
        \/ Reconciled.ok /\ Target.temp = Reconciled.target
        \/ Reconciled.ok /\ Target.properties = Reconciled.target

\* a merge in place between os.remove and os.rename: the original is gone,
\* and server.properties.temp is the reconciled file, which differs from both
\* the original and the release's
C18_Witness ==
    /\ up_pc = "rename_properties"
    /\ InPlace
    /\ LocalBefore.properties.there
    /\ ~local_server_dir.properties.there
    /\ local_server_dir.temp = Reconciled.target
    /\ Reconciled.target # LocalBefore.properties
    /\ Reconciled.target # latest_before.properties

====
